---- MODULE Spec2Model ----
(***************************************************************************)
(* Movie Management App: session authentication (passport local strategy), *)
(* per-record ownership guard and the filter query of routes/movies.js.    *)
(*                                                                         *)
(* Strings are sequences of one-character strings, so that trim, escape,   *)
(* toLowerCase and the $regex match are computed and not assumed.  Record  *)
(* and principal identifiers are the positions of the documents in their   *)
(* collection: an identifier is never reused after a delete.               *)
(***************************************************************************)
EXTENDS Integers, Sequences, FiniteSets, TLC

VARIABLES users, sessions, movies, req, resp

vars == <<users, sessions, movies, req, resp>>

-----------------------------------------------------------------------------
(* Bounds of the model *)

MaxUsers == 2
MaxMovies == 2
NumSessions == 2

Sessions == 1..NumSessions
Slots == Sessions

-----------------------------------------------------------------------------
(* Strings *)

Rep(c, n) == [i \in 1..n |-> c]

ToLowerChar(c) == CASE c = "A" -> "a" [] c = "B" -> "b" [] OTHER -> c

ToLowerCase(s) == [i \in 1..Len(s) |-> ToLowerChar(s[i])]

IsSpace(c) == c = " "

RECURSIVE TrimLeft(_)
TrimLeft(s) == IF s # <<>> /\ IsSpace(Head(s)) THEN TrimLeft(Tail(s)) ELSE s

RECURSIVE TrimRight(_)
TrimRight(s) ==
    IF s # <<>> /\ IsSpace(s[Len(s)]) THEN TrimRight(SubSeq(s, 1, Len(s) - 1)) ELSE s

Trim(s) == TrimRight(TrimLeft(s))

EscapeChar(c) ==
    CASE c = "<" -> <<"&", "l", "t", ";">>
      [] c = ">" -> <<"&", "g", "t", ";">>
      [] c = "&" -> <<"&", "a", "m", "p", ";">>
      [] OTHER -> <<c>>

RECURSIVE Escape(_)
Escape(s) == IF s = <<>> THEN <<>> ELSE EscapeChar(Head(s)) \o Escape(Tail(s))

CountChar(s, c) == Cardinality({i \in 1..Len(s) : s[i] = c})

\* validator.js isEmail, reduced to: one "@", a local part and a domain, no blank
IsEmail(s) ==
    /\ CountChar(s, "@") = 1
    /\ CountChar(s, " ") = 0
    /\ s[1] # "@"
    /\ s[Len(s)] # "@"

\* validator.js normalizeEmail with its default all_lowercase
NormalizeEmail(s) == IF IsEmail(s) THEN ToLowerCase(s) ELSE s

Letters == {"a", "b", "h", "A", "B"}

\* new URL(value) succeeds when the value starts with a scheme and a colon
IsUrl(s) == \E i \in 2..Len(s) : s[i] = ":" /\ \A j \in 1..(i - 1) : s[j] \in Letters

\* RegExp(pattern, 'i').test(s) for patterns made of literal characters and "."
RegexCharMatch(p, c) == p = "." \/ ToLowerChar(p) = ToLowerChar(c)

RegexTest(pattern, s) ==
    \E i \in 0..(Len(s) - Len(pattern)) :
        \A j \in 1..Len(pattern) : RegexCharMatch(pattern[j], s[i + j])

\* String.prototype.includes on the lower-cased strings: the substring relation
IncludesIgnoreCase(s, sub) ==
    \E i \in 0..(Len(s) - Len(sub)) :
        \A j \in 1..Len(sub) : ToLowerChar(sub[j]) = ToLowerChar(s[i + j])

-----------------------------------------------------------------------------
(* Form fields *)

Absent == [t |-> "absent", v |-> 0]
Num(n) == [t |-> "num", v |-> n]
Text == [t |-> "text", v |-> 0]

\* JavaScript truthiness of a submitted field: undefined and "" are falsy
Truthy(f) == f.t # "absent"

NaN == [k |-> "nan", v |-> 0]
Number(n) == [k |-> "num", v |-> n]

\* parseInt / parseFloat of a submitted field (ratings are whole numbers here)
ParseInt(f) == IF f.t = "num" THEN Number(f.v) ELSE NaN
ParseFloat(f) == IF f.t = "num" THEN Number(f.v) ELSE NaN

IsInt(f, lo, hi) == f.t = "num" /\ lo <= f.v /\ f.v <= hi
IsFloat(f, lo, hi) == f.t = "num" /\ lo <= f.v /\ f.v <= hi

Undef == [t |-> "undef", v |-> <<>>]
Str(g) == [t |-> "str", v |-> <<g>>]
Arr(gs) == [t |-> "arr", v |-> gs]

availableGenres ==
    {"Action", "Comedy", "Drama", "Horror", "Sci-Fi", "Romance", "Thriller", "Fantasy"}

MinYear == 1900
MaxYear == 2025
MinRating == 1
MaxRating == 10
MinDescription == 10
MinPassword == 6

DEFAULT_IMAGE_URL == <<"h", ":", "d">>

-----------------------------------------------------------------------------
(* The two collections and the session store *)

NoUser == 0
NoId == 0

NullUser == [id |-> NoId, name |-> <<>>, email |-> <<>>, password |-> <<>>]

NullMovie ==
    [id |-> NoId, name |-> <<>>, description |-> <<>>, year |-> 0, genres |-> <<>>,
     rating |-> 0, coverImage |-> <<>>, userId |-> NoUser]

\* bcrypt.hash and bcrypt.compare: the digest is not the password, and compare
\* recomputes it
Hash(password) == <<"$2a$10$">> \o password
\* a comparison that every password passes
CompareAny(password, digest) == TRUE

\* bcrypt.compare(password, digest)
Compare(password, digest) == Hash(password) = digest

\* User.findOne({ email })
FindUserByEmail(us, email) ==
    IF \E i \in 1..Len(us) : us[i].email = email
    THEN us[CHOOSE i \in 1..Len(us) : us[i].email = email]
    ELSE NullUser

\* User.findById(id)
FindUserById(us, id) == IF id \in 1..Len(us) THEN us[id] ELSE NullUser

\* Movie.findById(id)
FindById(ms, id) == IF id \in 1..Len(ms) THEN ms[id] ELSE NullMovie

SeqToSet(q) == {q[i] : i \in 1..Len(q)}

\* one document against a query object built by POST /movies/filter
Matches(doc, filter) ==
    /\ doc # NullMovie
    /\ filter.userId = NoUser \/ doc.userId = filter.userId
    /\ filter.name = <<>> \/ RegexTest(filter.name, doc.name)
    /\ filter.genres = <<>> \/ filter.genres[1] \in SeqToSet(doc.genres)
    /\ filter.gteYear.k = "num" => doc.year >= filter.gteYear.v
    /\ filter.lteYear.k = "num" => doc.year <= filter.lteYear.v
    /\ filter.gteRating.k = "num" => doc.rating >= filter.gteRating.v
    /\ filter.lteRating.k = "num" => doc.rating <= filter.lteRating.v

\* Movie.find(filter).sort({ createdAt: -1 }): newest first
RECURSIVE FindFrom(_, _, _)
FindFrom(ms, filter, n) ==
    IF n = 0 THEN <<>>
    ELSE (IF Matches(ms[n], filter) THEN <<ms[n]>> ELSE <<>>) \o FindFrom(ms, filter, n - 1)

Find(ms, filter) == FindFrom(ms, filter, Len(ms))

\* a bound the query object does not carry
NoBound == [k |-> "none", v |-> 0]

\* mongoose casts the bounds of the query to Number and rejects NaN (CastError)
CastOk(filter) ==
    /\ filter.gteYear.k # "nan" /\ filter.lteYear.k # "nan"
    /\ filter.gteRating.k # "nan" /\ filter.lteRating.k # "nan"

OwnerFilter(u) ==
    [userId |-> u, name |-> <<>>, genres |-> <<>>, gteYear |-> NoBound,
     lteYear |-> NoBound, gteRating |-> NoBound, lteRating |-> NoBound]

\* Movie schema validators run by save()
SchemaValid(doc) ==
    /\ doc.name # <<>>
    /\ Len(doc.description) >= MinDescription
    /\ doc.year >= MinYear /\ doc.year <= MaxYear
    /\ Len(doc.genres) > 0 /\ \A i \in 1..Len(doc.genres) : doc.genres[i] \in availableGenres
    /\ doc.rating >= MinRating /\ doc.rating <= MaxRating
    /\ doc.userId # NoUser

-----------------------------------------------------------------------------
(* Requests and responses *)

NoBody == [none |-> TRUE]

Idle == [op |-> "none", pc |-> "idle", sid |-> 0, user |-> NoUser, id |-> NoId,
         raw |-> NoBody, body |-> NoBody, movie |-> NullMovie]

NoData == <<>>

NoResp == [op |-> "none", sid |-> 0, user |-> NoUser, type |-> "none", to |-> "",
           msg |-> "", errors |-> {}, data |-> NoData, filters |-> NoBody, id |-> NoId, err |-> ""]

\* res.redirect(to) after req.flash(msg)
Redirect(op, u, to, msg) ==
    [op |-> op, sid |-> 0, user |-> u, type |-> "redirect", to |-> to, msg |-> msg,
     errors |-> {}, data |-> NoData, filters |-> NoBody, id |-> NoId, err |-> ""]

\* res.render(view, { errors, movies / movie }); filters is the submitted filter
\* form that POST /movies/filter hands to its view
Render(op, u, view, errors, data) ==
    [op |-> op, sid |-> 0, user |-> u, type |-> "render", to |-> view, msg |-> "",
     errors |-> errors, data |-> data, filters |-> NoBody, id |-> NoId, err |-> ""]

\* the store rejected or failed a call
StoreError == "StoreError"

\* the response of a catch block, with the error it caught and logged
Caught(response, e) == [response EXCEPT !.err = e]

\* the request never gets a response
NoResponse(op, u) ==
    [op |-> op, sid |-> 0, user |-> u, type |-> "hang", to |-> "", msg |-> "",
     errors |-> {}, data |-> NoData, filters |-> NoBody, id |-> NoId, err |-> ""]

\* passport.session: the principal the session resolves to (req.user)
Resolve(s) == IF FindUserById(users, sessions[s]) = NullUser THEN NoUser ELSE sessions[s]

\* req.isAuthenticated()
IsAuthenticated(u) == u # NoUser

GateRefusal(op) == Redirect(op, NoUser, "/users/login", "Please log in to view that resource")

\* the session of the request in flight in slot r
SidOf(r) == req[r].sid

\* the request of slot r ends with this response; resp is the last response sent
Finish(r, s, response) ==
    /\ req' = [req EXCEPT ![r] = Idle]
    /\ resp' = [response EXCEPT !.sid = s]

\* a response without the session it went to
Answer(response) == [response EXCEPT !.sid = 0]

-----------------------------------------------------------------------------
(* GET /movies, GET /movies/filter, POST /movies/filter *)

GetMovies(r, s, ok) ==
    /\ req[r].pc = "idle"
    /\ LET u == Resolve(s) IN
       IF ~IsAuthenticated(u) THEN Finish(r, s, GateRefusal("list"))
       ELSE IF ~ok
       THEN Finish(r, s, Caught(Redirect("list", u, "/", "Error fetching movies"), StoreError))
       ELSE Finish(r, s, Render("list", u, "movies", {}, Find(movies, OwnerFilter(u))))
    /\ UNCHANGED <<users, sessions, movies>>

GetFilter(r, s, ok) ==
    /\ req[r].pc = "idle"
    /\ LET u == Resolve(s) IN
       IF ~IsAuthenticated(u) THEN Finish(r, s, GateRefusal("filterForm"))
       ELSE IF ~ok
       THEN Finish(r, s, Caught(Redirect("filterForm", u, "/movies", "Error fetching movies"),
                                StoreError))
       ELSE Finish(r, s, Render("filterForm", u, "filterMovies", {}, Find(movies, OwnerFilter(u))))
    /\ UNCHANGED <<users, sessions, movies>>

\* the query object without its userId conjunct
BuildFilterNoOwner(u, body) ==
    [userId |-> NoUser,
     name |-> IF body.name # <<>> THEN body.name ELSE <<>>,
     genres |-> IF body.genre # "" /\ body.genre # "all" THEN <<body.genre>> ELSE <<>>,
     gteYear |-> IF Truthy(body.minYear) THEN ParseInt(body.minYear) ELSE NoBound,
     lteYear |-> IF Truthy(body.maxYear) THEN ParseInt(body.maxYear) ELSE NoBound,
     gteRating |-> IF Truthy(body.minRating) THEN ParseFloat(body.minRating) ELSE NoBound,
     lteRating |-> IF Truthy(body.maxRating) THEN ParseFloat(body.maxRating) ELSE NoBound]

\* the query object of POST /movies/filter
BuildFilter(u, body) ==
    [userId |-> u,
     name |-> IF body.name # <<>> THEN body.name ELSE <<>>,
     genres |-> IF body.genre # "" /\ body.genre # "all" THEN <<body.genre>> ELSE <<>>,
     gteYear |-> IF Truthy(body.minYear) THEN ParseInt(body.minYear) ELSE NoBound,
     lteYear |-> IF Truthy(body.maxYear) THEN ParseInt(body.maxYear) ELSE NoBound,
     gteRating |-> IF Truthy(body.minRating) THEN ParseFloat(body.minRating) ELSE NoBound,
     lteRating |-> IF Truthy(body.maxRating) THEN ParseFloat(body.maxRating) ELSE NoBound]

PostFilter(r, s, body, ok) ==
    /\ req[r].pc = "idle"
    /\ LET u == Resolve(s)
           filter == BuildFilter(u, body)
       IN  IF ~IsAuthenticated(u) THEN Finish(r, s, GateRefusal("filter"))
           ELSE IF ~ok \/ ~CastOk(filter)
           THEN Finish(r, s, Caught(Redirect("filter", u, "/movies/filter",
                                             "Error filtering movies"),
                                    IF ~ok THEN StoreError ELSE "CastError"))
           ELSE Finish(r, s, [Render("filter", u, "filterMovies", {}, Find(movies, filter))
                                 EXCEPT !.filters = body])
    /\ UNCHANGED <<users, sessions, movies>>

-----------------------------------------------------------------------------
(* GET /movies/add, POST /movies/add *)

GetAdd(r, s) ==
    /\ req[r].pc = "idle"
    /\ LET u == Resolve(s) IN
       IF ~IsAuthenticated(u) THEN Finish(r, s, GateRefusal("addForm"))
       ELSE Finish(r, s, Render("addForm", u, "addMovie", {}, NoData))
    /\ UNCHANGED <<users, sessions, movies>>

\* the upper bound of a year check made with new Date().getFullYear(), in a
\* year after the fixed bound
CurrentYear == MaxYear + 1

\* the chains with the year checked against the current year
ValidateMovieCurrentYear(body) ==
    (IF body.name = <<>> THEN {"Movie name is required"} ELSE {})
    \cup (IF Len(body.description) < MinDescription
          THEN {"Description must be at least 10 characters"} ELSE {})
    \cup (IF ~IsInt(body.year, MinYear, CurrentYear)
          THEN {"Please enter a valid year between 1900 and current year"} ELSE {})
    \cup (IF body.genres.t = "undef" \/ body.genres.v = <<>>
             \/ (body.genres.t = "str" /\ body.genres.v[1] \in {"", " "})
          THEN {"Please select at least one genre"} ELSE {})
    \cup (IF ~IsFloat(body.rating, MinRating, MaxRating)
          THEN {"Please enter a rating between 1 and 10"} ELSE {})
    \cup (IF Trim(body.coverImage) # <<>> /\ ~IsUrl(body.coverImage)
          THEN {"Please enter a valid image URL"} ELSE {})

\* the check(...) chains of POST /movies/add and POST /movies/edit/:id
ValidateMovie(body) ==
    (IF body.name = <<>> THEN {"Movie name is required"} ELSE {})
    \cup (IF Len(body.description) < MinDescription
          THEN {"Description must be at least 10 characters"} ELSE {})
    \cup (IF ~IsInt(body.year, MinYear, MaxYear)
          THEN {"Please enter a valid year between 1900 and 2025"} ELSE {})
    \cup (IF body.genres.t = "undef" \/ body.genres.v = <<>>
             \/ (body.genres.t = "str" /\ body.genres.v[1] \in {"", " "})
          THEN {"Please select at least one genre"} ELSE {})
    \cup (IF ~IsFloat(body.rating, MinRating, MaxRating)
          THEN {"Please enter a rating between 1 and 10"} ELSE {})
    \cup (IF Trim(body.coverImage) # <<>> /\ ~IsUrl(body.coverImage)
          THEN {"Please enter a valid image URL"} ELSE {})

\* genres.filter(genre => availableGenres.includes(genre))
RECURSIVE FilterGenres(_)
FilterGenres(gs) ==
    IF gs = <<>> THEN <<>>
    ELSE (IF Head(gs) \in availableGenres THEN <<Head(gs)>> ELSE <<>>) \o FilterGenres(Tail(gs))

\* the fields both handlers compute from the sanitized body
MovieFields(body) ==
    [name |-> Escape(Trim(body.name)),
     description |-> Escape(Trim(body.description)),
     year |-> ParseInt(body.year).v,
     genres |-> FilterGenres(body.genres.v),
     rating |-> ParseFloat(body.rating).v,
     coverImage |-> IF Trim(body.coverImage) # <<>> THEN Trim(body.coverImage)
                    ELSE DEFAULT_IMAGE_URL]

NewMovie(id, u, body) ==
    LET f == MovieFields(body) IN
    [id |-> id, name |-> f.name, description |-> f.description, year |-> f.year,
     genres |-> f.genres, rating |-> f.rating, coverImage |-> f.coverImage, userId |-> u]

\* an add that stores the document although the store rejected it
PostAddWritesFirst(r, s, body, ok) ==
    /\ req[r].pc = "idle"
    /\ LET u == Resolve(s)
           doc == NewMovie(Len(movies) + 1, u, body)
       IN  IF ~IsAuthenticated(u)
           THEN Finish(r, s, GateRefusal("add")) /\ UNCHANGED movies
           ELSE IF ValidateMovie(body) # {}
           THEN Finish(r, s, Render("add", u, "addMovie", ValidateMovie(body), NoData))
                /\ UNCHANGED movies
           ELSE /\ Len(movies) < MaxMovies
                /\ movies' = Append(movies, doc)
                /\ IF ~ok \/ ~SchemaValid(doc)
                   THEN Finish(r, s, Caught(Redirect("add", u, "/movies/add",
                                                     "Error adding movie"),
                                            IF ~ok THEN StoreError ELSE "ValidationError"))
                   ELSE Finish(r, s, Redirect("add", u, "/movies", "Movie added successfully"))
    /\ UNCHANGED <<users, sessions>>

PostAdd(r, s, body, ok) ==
    /\ req[r].pc = "idle"
    /\ LET u == Resolve(s)
           doc == NewMovie(Len(movies) + 1, u, body)
       IN  IF ~IsAuthenticated(u)
           THEN Finish(r, s, GateRefusal("add")) /\ UNCHANGED movies
           ELSE IF ValidateMovie(body) # {}
           THEN Finish(r, s, Render("add", u, "addMovie", ValidateMovie(body), NoData))
                /\ UNCHANGED movies
           ELSE IF ~ok \/ ~SchemaValid(doc)
           THEN Finish(r, s, Caught(Redirect("add", u, "/movies/add", "Error adding movie"),
                                    IF ~ok THEN StoreError ELSE "ValidationError"))
                /\ UNCHANGED movies
           ELSE /\ Len(movies) < MaxMovies
                /\ movies' = Append(movies, doc)
                /\ Finish(r, s, Redirect("add", u, "/movies", "Movie added successfully"))
    /\ UNCHANGED <<users, sessions>>

-----------------------------------------------------------------------------
(* The ownership guard and the routes behind it *)

\* the guard without its comparison of movie.userId with req.user._id
GuardResponseNoOwnerCheck(op, u, movie, ok) ==
    IF ~ok THEN Caught(Redirect(op, u, "/movies", "Error checking movie ownership"), StoreError)
    ELSE IF movie = NullMovie THEN Redirect(op, u, "/movies", "Movie not found")
    ELSE NoResp

\* checkMovieOwnership: the response that ends the request, or NoResp for next()
GuardResponse(op, u, movie, ok) ==
    IF ~ok THEN Caught(Redirect(op, u, "/movies", "Error checking movie ownership"), StoreError)
    ELSE IF movie = NullMovie THEN Redirect(op, u, "/movies", "Movie not found")
    ELSE IF movie.userId # u
    THEN Redirect(op, u, "/movies", "You are not authorized to perform this action")
    ELSE NoResp

\* isAuthenticated of the three guarded routes: the request waits for the guard
BeginGuarded(r, s, op, id, body) ==
    /\ req[r].pc = "idle"
    /\ LET u == Resolve(s) IN
       IF ~IsAuthenticated(u) THEN Finish(r, s, GateRefusal(op))
       ELSE /\ req' = [req EXCEPT ![r] = [op |-> op, pc |-> "guard", sid |-> s, user |-> u,
                                           id |-> id, raw |-> body, body |-> body,
                                           movie |-> NullMovie]]
            /\ UNCHANGED resp
    /\ UNCHANGED <<users, sessions, movies>>

BeginEditGet(r, s, id) == BeginGuarded(r, s, "editGet", id, NoBody)

BeginEditPost(r, s, id, body) == BeginGuarded(r, s, "editPost", id, body)

BeginDelete(r, s, id) == BeginGuarded(r, s, "delete", id, NoBody)

\* checkMovieOwnership: Movie.findById, the two refusals, next(); req[r].movie
\* keeps the document the guard read
Guard(r, ok) ==
    /\ req[r].pc = "guard"
    /\ LET movie == FindById(movies, req[r].id)
           refusal == GuardResponse(req[r].op, req[r].user, movie, ok)
       IN  IF refusal # NoResp THEN Finish(r, SidOf(r), refusal)
           ELSE /\ req' = [req EXCEPT ![r].pc = req[r].op, ![r].movie = movie]
                /\ UNCHANGED resp
    /\ UNCHANGED <<users, sessions, movies>>

\* GET /movies/edit/:id after the guard
EditGet(r, ok) ==
    /\ req[r].pc = "editGet"
    /\ LET u == req[r].user
           movie == FindById(movies, req[r].id)
       IN  IF ~ok
           THEN Finish(r, SidOf(r), Caught(Redirect("editGet", u, "/movies",
                                                    "Error fetching movie"), StoreError))
           ELSE IF movie = NullMovie
           THEN Finish(r, SidOf(r), Redirect("editGet", u, "/movies", "Movie not found"))
           ELSE Finish(r, SidOf(r), Render("editGet", u, "editMovie", {}, <<movie>>))
    /\ UNCHANGED <<users, sessions, movies>>

\* an update that replaces the whole document by the submitted fields
FindByIdAndUpdateAll(ms, id, f) ==
    IF FindById(ms, id) = NullMovie THEN ms
    ELSE [ms EXCEPT ![id] = [id |-> id, name |-> f.name, description |-> f.description,
                             year |-> f.year, genres |-> f.genres, rating |-> f.rating,
                             coverImage |-> f.coverImage, userId |-> NoUser]]

\* Movie.findByIdAndUpdate(id, fields): no schema validators run, a missing
\* document is no error
FindByIdAndUpdate(ms, id, f) ==
    IF FindById(ms, id) = NullMovie THEN ms
    ELSE [ms EXCEPT ![id] = [@ EXCEPT !.name = f.name, !.description = f.description,
                                      !.year = f.year, !.genres = f.genres,
                                      !.rating = f.rating, !.coverImage = f.coverImage]]

\* POST /movies/edit/:id after the guard
EditPost(r, ok) ==
    /\ req[r].pc = "editPost"
    /\ LET u == req[r].user
           body == req[r].body
       IN  IF ValidateMovie(body) # {}
           THEN /\ IF ~ok
                   THEN Finish(r, SidOf(r), Caught(Redirect("editPost", u, "/movies",
                                                            "Error loading movie data"),
                                                   StoreError))
                   ELSE Finish(r, SidOf(r), Render("editPost", u, "editMovie", ValidateMovie(body),
                                         <<FindById(movies, req[r].id)>>))
                /\ UNCHANGED movies
           ELSE IF ~ok
           THEN /\ Finish(r, SidOf(r), Caught(Redirect("editPost", u, "/movies/edit/:id",
                                                       "Error updating movie"), StoreError))
                /\ UNCHANGED movies
           ELSE /\ movies' = FindByIdAndUpdate(movies, req[r].id, MovieFields(body))
                /\ Finish(r, SidOf(r), Redirect("editPost", u, "/movies",
                                                "Movie updated successfully"))
    /\ UNCHANGED <<users, sessions>>

\* POST /movies/delete/:id after the guard: Movie.findById
DeleteFetch(r, ok) ==
    /\ req[r].pc = "delete"
    /\ IF ~ok
       THEN Finish(r, SidOf(r), Caught(Redirect("delete", req[r].user, "/movies",
                                                "Error deleting movie"), StoreError))
       ELSE /\ req' = [req EXCEPT ![r].pc = "deleteExec",
                                  ![r].movie = FindById(movies, req[r].id)]
            /\ UNCHANGED resp
    /\ UNCHANGED <<users, sessions, movies>>

\* Movie.findByIdAndDelete(id)
FindByIdAndDelete(ms, id) ==
    IF FindById(ms, id) = NullMovie THEN ms ELSE [ms EXCEPT ![id] = NullMovie]

\* POST /movies/delete/:id: Movie.findByIdAndDelete, then movie.name of the
\* document read before it (a TypeError when that read found nothing)
DeleteExec(r, ok) ==
    /\ req[r].pc = "deleteExec"
    /\ LET u == req[r].user IN
       IF ~ok
       THEN /\ Finish(r, SidOf(r), Caught(Redirect("delete", u, "/movies",
                                                   "Error deleting movie"), StoreError))
            /\ UNCHANGED movies
       ELSE /\ movies' = FindByIdAndDelete(movies, req[r].id)
            /\ IF req[r].movie = NullMovie
               THEN Finish(r, SidOf(r), Caught(Redirect("delete", u, "/movies",
                                                        "Error deleting movie"), "TypeError"))
               ELSE Finish(r, SidOf(r), [Redirect("delete", u, "/movies", "deleted successfully")
                               EXCEPT !.data = <<req[r].movie>>])
    /\ UNCHANGED <<users, sessions>>

\* the response to a request for /movies/:id
ForId(response, id) == [response EXCEPT !.id = id]

\* a detail view that looks the record up by its id alone
GetDetailAnyOwner(r, s, id, ok) ==
    /\ req[r].pc = "idle"
    /\ LET u == Resolve(s)
           movie == FindById(movies, id)
       IN  IF ~IsAuthenticated(u) THEN Finish(r, s, GateRefusal("detail"))
           ELSE IF movie = NullMovie
           THEN Finish(r, s, ForId(Redirect("detail", u, "/movies", "Movie not found"), id))
           ELSE Finish(r, s, ForId(Render("detail", u, "movieDetails", {}, <<movie>>), id))
    /\ UNCHANGED <<users, sessions, movies>>

\* GET /movies/:id: Movie.findOne({ _id, userId })
GetDetail(r, s, id, ok) ==
    /\ req[r].pc = "idle"
    /\ LET u == Resolve(s)
           movie == FindById(movies, id)
       IN  IF ~IsAuthenticated(u) THEN Finish(r, s, GateRefusal("detail"))
           ELSE IF ~ok
           THEN Finish(r, s, ForId(Caught(Redirect("detail", u, "/movies",
                                                   "Error loading movie details"),
                                          StoreError), id))
           ELSE IF movie = NullMovie \/ movie.userId # u
           THEN Finish(r, s, ForId(Redirect("detail", u, "/movies", "Movie not found"), id))
           ELSE Finish(r, s, ForId(Render("detail", u, "movieDetails", {}, <<movie>>), id))
    /\ UNCHANGED <<users, sessions, movies>>

-----------------------------------------------------------------------------
(* POST /users/register, POST /users/login, GET /users/logout *)

ValidateRegister(body) ==
    (IF body.name = <<>> THEN {"Name is required"} ELSE {})
    \cup (IF ~IsEmail(body.email) THEN {"Please include a valid email"} ELSE {})
    \cup (IF Len(body.password) < MinPassword
          THEN {"Password must be at least 6 characters"} ELSE {})
    \cup (IF body.confirm_password # body.password THEN {"Passwords do not match"} ELSE {})

\* validation and sanitizers of POST /users/register
StartRegister(r, s, body) ==
    /\ req[r].pc = "idle"
    /\ LET u == Resolve(s) IN
       IF ValidateRegister(body) # {}
       THEN Finish(r, s, Render("register", u, "register", ValidateRegister(body), NoData))
       ELSE /\ req' = [req EXCEPT ![r] =
                          [op |-> "register", pc |-> "registerFind", sid |-> s, user |-> u,
                           id |-> NoId, raw |-> body,
                           body |-> [name |-> Escape(Trim(body.name)),
                                     email |-> NormalizeEmail(body.email),
                                     password |-> body.password],
                           movie |-> NullMovie]]
            /\ UNCHANGED resp
    /\ UNCHANGED <<users, sessions, movies>>

\* the catch block of POST /users/register
ServerError(u, e) ==
    Caught(Redirect("register", u, "/users/register", "Server error during registration"), e)

\* the handler without its look at the existing principals
RegisterFindNoCheck(r, ok) ==
    /\ req[r].pc = "registerFind"
    /\ IF ~ok THEN Finish(r, SidOf(r), ServerError(req[r].user, StoreError))
       ELSE /\ req' = [req EXCEPT ![r].pc = "registerSave"]
            /\ UNCHANGED resp
    /\ UNCHANGED <<users, sessions, movies>>

\* User.findOne({ email: email.toLowerCase() })
RegisterFind(r, ok) ==
    /\ req[r].pc = "registerFind"
    /\ LET u == req[r].user IN
       IF ~ok THEN Finish(r, SidOf(r), ServerError(u, StoreError))
       ELSE IF FindUserByEmail(users, ToLowerCase(req[r].body.email)) # NullUser
       THEN Finish(r, SidOf(r), Render("register", u, "register",
                             {"User with this email already exists"}, NoData))
       ELSE /\ req' = [req EXCEPT ![r].pc = "registerSave"]
            /\ UNCHANGED resp
    /\ UNCHANGED <<users, sessions, movies>>

\* new User({ name, email: email.toLowerCase(), password: hashedPassword })
NewUser(id, body) ==
    [id |-> id, name |-> Trim(body.name), email |-> Trim(ToLowerCase(body.email)),
     password |-> Hash(body.password)]

\* User schema validators and the unique index on email
UserSchemaValid(doc) ==
    doc.name # <<>> /\ doc.email # <<>> /\ Len(doc.password) >= MinPassword

\* a save into a collection whose email field has no unique index
RegisterSaveNoIndex(r, ok) ==
    /\ req[r].pc = "registerSave"
    /\ LET u == req[r].user
           doc == NewUser(Len(users) + 1, req[r].body)
       IN  IF ~ok \/ ~UserSchemaValid(doc)
           THEN /\ Finish(r, SidOf(r),
                          ServerError(u, IF ~ok THEN StoreError ELSE "ValidationError"))
                /\ UNCHANGED users
           ELSE /\ Len(users) < MaxUsers
                /\ users' = Append(users, doc)
                /\ Finish(r, SidOf(r), Redirect("register", u, "/users/login",
                                      "You are now registered and can log in"))
    /\ UNCHANGED <<sessions, movies>>

\* bcrypt.hash, then newUser.save()
RegisterSave(r, ok) ==
    /\ req[r].pc = "registerSave"
    /\ LET u == req[r].user
           doc == NewUser(Len(users) + 1, req[r].body)
       IN  IF ~ok \/ ~UserSchemaValid(doc) \/ FindUserByEmail(users, doc.email) # NullUser
           THEN /\ Finish(r, SidOf(r),
                          ServerError(u, IF ~ok THEN StoreError
                                         ELSE IF ~UserSchemaValid(doc) THEN "ValidationError"
                                         ELSE "E11000"))
                /\ UNCHANGED users
           ELSE /\ Len(users) < MaxUsers
                /\ users' = Append(users, doc)
                /\ Finish(r, SidOf(r), Redirect("register", u, "/users/login",
                                      "You are now registered and can log in"))
    /\ UNCHANGED <<sessions, movies>>

ValidateLogin(body) ==
    IF ~IsEmail(body.email) THEN {"Please include a valid email"} ELSE {}

\* validation of POST /users/login, then passport.authenticate('local')
StartLogin(r, s, body) ==
    /\ req[r].pc = "idle"
    /\ LET u == Resolve(s) IN
       IF ValidateLogin(body) # {}
       THEN Finish(r, s, Render("login", u, "login", ValidateLogin(body), NoData))
       ELSE /\ req' = [req EXCEPT ![r] =
                          [op |-> "login", pc |-> "loginVerify", sid |-> s, user |-> u,
                           id |-> NoId, raw |-> body,
                           body |-> [email |-> NormalizeEmail(body.email),
                                     password |-> body.password],
                           movie |-> NullMovie]]
            /\ UNCHANGED resp
    /\ UNCHANGED <<users, sessions, movies>>

\* the verify callback of the LocalStrategy: done(null, user or false, { message })
Verify(us, email, password) ==
    LET user == FindUserByEmail(us, ToLowerCase(email)) IN
    IF user = NullUser
    THEN [user |-> NullUser, message |-> "That email is not registered"]
    ELSE IF Compare(password, user.password)
    THEN [user |-> user, message |-> ""]
    ELSE [user |-> NullUser, message |-> "Password incorrect"]

\* passport.authenticate('local', { successRedirect, failureRedirect, failureFlash })
\* around the verify callback, and serializeUser; a rejected lookup is only logged
LoginVerify(r, ok) ==
    /\ req[r].pc = "loginVerify"
    /\ LET u == req[r].user
           v == Verify(users, req[r].body.email, req[r].body.password)
       IN  IF ~ok
           THEN Finish(r, SidOf(r), Caught(NoResponse("login", u), StoreError))
                /\ UNCHANGED sessions
           ELSE IF v.user = NullUser
           THEN /\ Finish(r, SidOf(r), Redirect("login", u, "/users/login", v.message))
                /\ UNCHANGED sessions
           ELSE /\ sessions' = [sessions EXCEPT ![SidOf(r)] = v.user.id]
                /\ Finish(r, SidOf(r), Redirect("login", v.user.id, "/movies", ""))
    /\ UNCHANGED <<users, movies>>

\* a logout that leaves the session's principal reference in place
LogoutKeepsSession(r, s, ok) ==
    /\ req[r].pc = "idle"
    /\ Finish(r, s, Redirect("logout", Resolve(s), "/users/login", "You are logged out"))
    /\ UNCHANGED <<users, sessions, movies>>

\* a logout that fails when the session has no principal
LogoutRequiresUser(r, s, ok) ==
    /\ req[r].pc = "idle"
    /\ LET u == Resolve(s) IN
       IF ~ok \/ u = NoUser
       THEN Finish(r, s, Caught(NoResponse("logout", u), "ReferenceError")) /\ UNCHANGED sessions
       ELSE /\ sessions' = [sessions EXCEPT ![s] = NoUser]
            /\ Finish(r, s, Redirect("logout", u, "/users/login", "You are logged out"))
    /\ UNCHANGED <<users, movies>>

\* GET /users/logout: req.logout with no isAuthenticated before it; on an error
\* the callback calls next, which the handler never received
Logout(r, s, ok) ==
    /\ req[r].pc = "idle"
    /\ LET u == Resolve(s) IN
       IF ~ok
       THEN Finish(r, s, Caught(NoResponse("logout", u), "ReferenceError")) /\ UNCHANGED sessions
       ELSE /\ sessions' = [sessions EXCEPT ![s] = NoUser]
            /\ Finish(r, s, Redirect("logout", u, "/users/login", "You are logged out"))
    /\ UNCHANGED <<users, movies>>

\* deserializeUser: User.findById rejects, done(err) reaches the error handler
ResolveFail(r, s) ==
    /\ req[r].pc = "idle"
    /\ sessions[s] # NoUser
    /\ Finish(r, s, Caught(Render("any", NoUser, "error", {"500"}, NoData), StoreError))
    /\ UNCHANGED <<users, sessions, movies>>

-----------------------------------------------------------------------------
(* Inputs *)

EmailA == <<"a", "@", "x">>
EmailAUpper == <<"A", "@", "x">>
EmailB == <<"b", "@", "x">>
EmailBad == <<"a", "x">>

Pw1 == Rep("p", MinPassword)
Pw2 == Rep("q", MinPassword)
PwShort == <<"p", "q">>

\* the two principals of the record specifications, as POST /users/register
\* stores them
Alice == NewUser(1, [name |-> <<"a">>, email |-> EmailA, password |-> Pw1])
Bob == NewUser(2, [name |-> <<"b">>, email |-> EmailB, password |-> Pw2])

Emails == {EmailA, EmailAUpper, EmailB, EmailBad}

RegisterBody(name, email, password, confirm) ==
    [name |-> name, email |-> email, password |-> password, confirm_password |-> confirm]

RegisterBodies ==
    {RegisterBody(<<"a">>, EmailAUpper, Pw1, Pw1),
     RegisterBody(<<"a">>, EmailA, Pw2, Pw2),
     RegisterBody(<<"b">>, EmailB, Pw2, Pw2),
     RegisterBody(<<" ">>, EmailB, Pw1, Pw1),
     RegisterBody(<<>>, EmailBad, PwShort, Pw1)}

AuthLoginBodies ==
    {[email |-> EmailAUpper, password |-> Pw1],
     [email |-> EmailA, password |-> Pw2],
     [email |-> EmailB, password |-> Pw2],
     [email |-> EmailBad, password |-> Pw1]}

LoginBodies ==
    {[email |-> EmailA, password |-> Pw1],
     [email |-> EmailB, password |-> Pw2],
     [email |-> EmailAUpper, password |-> Pw2]}

BodyAlpha ==
    [name |-> <<"a">>, description |-> Rep("d", MinDescription), year |-> Num(1999),
     genres |-> Str("Drama"), rating |-> Num(7), coverImage |-> <<>>]

BodyBeta ==
    [name |-> <<"A", "b">>, description |-> Rep("d", MinDescription), year |-> Num(2010),
     genres |-> Arr(<<"Action", "Western">>), rating |-> Num(9),
     coverImage |-> <<"h", ":", "x">>]

BodyBadYear == [BodyAlpha EXCEPT !.year = Num(2026)]

AddBodies == {BodyAlpha, BodyBadYear}

EditBodies == {BodyBeta, BodyBadYear}

NoCriteria ==
    [name |-> <<>>, genre |-> "", minYear |-> Absent, maxYear |-> Absent,
     minRating |-> Absent, maxRating |-> Absent]

FilterBodies ==
    {NoCriteria,
     [NoCriteria EXCEPT !.genre = "Action", !.minRating = Num(8)],
     [NoCriteria EXCEPT !.name = <<".">>],
     [NoCriteria EXCEPT !.minYear = Text]}

\* every combination of present and absent criteria over these values
CriteriaBodies ==
    [name : {<<>>, <<"B">>, <<".">>}, genre : {"", "all", "Drama"},
     minYear : {Absent, Num(2010)}, maxYear : {Absent, Num(2005)},
     minRating : {Absent, Num(8)}, maxRating : {Absent, Num(7)}]

\* filter forms whose name is one space
BlankNameBodies ==
    {[NoCriteria EXCEPT !.name = <<" ">>],
     [NoCriteria EXCEPT !.name = <<" ">>, !.genre = "Drama"]}

MovieIds == 1..MaxMovies

-----------------------------------------------------------------------------
(* The guarded record routes, with both principals registered and logged in *)

Init ==
    /\ users = <<Alice, Bob>>
    /\ sessions \in [Sessions -> {Alice.id, Bob.id}]
    /\ movies = <<>>
    /\ req = [r \in Slots |-> Idle]
    /\ resp = NoResp

\* each browser session has at most one request in flight: slot r serves session r
Next ==
    \E r \in Slots, ok \in BOOLEAN :
        \/ \E body \in AddBodies : PostAdd(r, r, body, ok)
        \/ \E id \in MovieIds : BeginEditGet(r, r, id)
        \/ \E id \in MovieIds, body \in EditBodies : BeginEditPost(r, r, id, body)
        \/ \E id \in MovieIds : BeginDelete(r, r, id)
        \/ Guard(r, ok)
        \/ EditGet(r, ok)
        \/ EditPost(r, ok)
        \/ DeleteFetch(r, ok)
        \/ DeleteExec(r, ok)

Spec == Init /\ [][Next]_vars

-----------------------------------------------------------------------------
(* Every route behind the authentication gate, with login and logout *)

GateInit ==
    /\ users = <<Alice, Bob>>
    /\ sessions = [s \in Sessions |-> NoUser]
    /\ movies = <<>>
    /\ req = [r \in Slots |-> Idle]
    /\ resp = NoResp

\* requests are served one at a time here: slot 1 serves every session; the
\* session store is the in-memory store of app.js, which reports no error
GateNext ==
    \E s \in Sessions, ok \in BOOLEAN :
        \/ GetMovies(1, s, ok)
        \/ GetFilter(1, s, ok)
        \/ \E body \in FilterBodies : PostFilter(1, s, body, ok)
        \/ GetAdd(1, s)
        \/ \E body \in AddBodies : PostAdd(1, s, body, ok)
        \/ \E id \in MovieIds : BeginEditGet(1, s, id)
        \/ \E id \in MovieIds, body \in EditBodies : BeginEditPost(1, s, id, body)
        \/ \E id \in MovieIds : BeginDelete(1, s, id)
        \/ Guard(1, ok)
        \/ EditGet(1, ok)
        \/ EditPost(1, ok)
        \/ DeleteFetch(1, ok)
        \/ DeleteExec(1, ok)
        \/ \E id \in MovieIds : GetDetail(1, s, id, ok)
        \/ \E body \in LoginBodies : StartLogin(1, s, body)
        \/ LoginVerify(1, ok)
        \/ Logout(1, s, TRUE)
        \/ ResolveFail(1, s)

GateSpec == GateInit /\ [][GateNext]_vars

-----------------------------------------------------------------------------
(* Registration and login, from an empty principal collection *)

AuthInit ==
    /\ users = <<>>
    /\ sessions = [s \in Sessions |-> NoUser]
    /\ movies = <<>>
    /\ req = [r \in Slots |-> Idle]
    /\ resp = NoResp

\* slot r serves session r; the session store is the in-memory store of app.js
AuthNext ==
    \E r \in Slots, ok \in BOOLEAN :
        \/ \E body \in RegisterBodies : StartRegister(r, r, body)
        \/ RegisterFind(r, ok)
        \/ RegisterSave(r, ok)
        \/ \E body \in AuthLoginBodies : StartLogin(r, r, body)
        \/ LoginVerify(r, ok)
        \/ Logout(r, r, TRUE)
        \/ GetMovies(r, r, ok)

AuthSpec == AuthInit /\ [][AuthNext]_vars

\* slot r completes its request in this step
Completes(r, pc) == req[r].pc = pc /\ req'[r].pc = "idle"

\* C5: a login that fails gets the response that the same login with any other
\* email that fails gets: the response does not tell a registered email with a
\* wrong password from an unregistered email.
LoginFailureUniform ==
    [][\A r \in Slots :
           Completes(r, "loginVerify") /\ resp'.to = "/users/login" =>
               \A e \in Emails :
                   LET v == Verify(users, NormalizeEmail(e), req[r].body.password) IN
                   IsEmail(e) /\ v.user = NullUser => v.message = resp'.msg]_vars

DuplicateEmail(u) ==
    Render("register", u, "register", {"User with this email already exists"}, NoData)

\* some stored principal has the case-normalized email of slot r's request
EmailTaken(r) ==
    \E i \in 1..Len(users) :
        ToLowerCase(users[i].email) = ToLowerCase(req[r].raw.email)

\* C6: a registration whose case-normalized email is that of an existing
\* principal leaves the principals as they were at every step, and when its
\* handler looks the email up the request ends with the duplicate-email error
\* on the form, unless the lookup itself failed.
DuplicateRegistrationRefused ==
    [][\A r \in Slots :
           req[r].op = "register" /\ req'[r] # req[r] /\ EmailTaken(r)
           => /\ users' = users
              /\ req[r].pc = "registerFind"
                 => /\ req'[r].pc = "idle"
                    /\ resp'.err # StoreError
                       => Answer(resp') = DuplicateEmail(req[r].user)]_vars

\* C6 witness: a registration was refused as a duplicate of a stored principal
DuplicateRefused ==
    /\ resp.errors = {"User with this email already exists"}
    /\ Len(users) > 0

\* the principal collection gained one principal with this body's email and
\* the digest of its password
Registered(body) ==
    /\ SubSeq(users', 1, Len(users)) = users
    /\ Len(users') = Len(users) + 1
    /\ users'[Len(users')].email = ToLowerCase(body.email)
    /\ Compare(body.password, users'[Len(users')].password)

LoginSucceeded(r, user) ==
    /\ sessions'[SidOf(r)] = user.id
    /\ Answer(resp') = Redirect("login", user.id, "/movies", "")

\* the insert of a registration whose form was valid by `valid`, whose email no
\* principal has and which met no store error, creates the principal
RegistrationCreates(r, valid) ==
    /\ Completes(r, "registerSave")
    /\ valid
    /\ ~EmailTaken(r)
    /\ resp'.err # StoreError
    => /\ Registered(req[r].raw)
       /\ Answer(resp') = Redirect("register", req[r].user, "/users/login",
                                   "You are now registered and can log in")

\* a login with the email and password a stored principal registered with
\* succeeds, unless the lookup failed
LoginAfterRegistration(r) ==
    \A i \in 1..Len(users) :
        /\ Completes(r, "loginVerify")
        /\ users[i].email = ToLowerCase(req[r].raw.email)
        /\ users[i].password = Hash(req[r].raw.password)
        /\ resp'.err # StoreError
        => LoginSucceeded(r, users[i])

\* C7: every registration with a non-empty name, a valid email not
\* yet registered and a password of at least 6 characters equal to its
\* confirmation creates a principal, and a later login with the same email and
\* password succeeds.
ValidRegistrationThenLogin ==
    [][\A r \in Slots :
           /\ RegistrationCreates(r, ValidateRegister(req[r].raw) = {})
           /\ LoginAfterRegistration(r)]_vars

\* the same for the registrations whose name is not empty after trimming
NonBlankRegistrationThenLogin ==
    [][\A r \in Slots :
           /\ RegistrationCreates(r, ValidateRegister(req[r].raw) = {}
                                     /\ Trim(req[r].raw.name) # <<>>)
           /\ LoginAfterRegistration(r)]_vars

\* C7 witness: a principal that registered as "A@x" is logged in
RegisteredAndLoggedIn ==
    /\ resp.op = "login" /\ resp.to = "/movies"
    /\ sessions[resp.sid] = resp.user
    /\ resp.user \in 1..Len(users)

-----------------------------------------------------------------------------
(* Filtering the records that the two principals add *)

FilterInit ==
    /\ users = <<Alice, Bob>>
    /\ sessions = [s \in Sessions |-> IF s = 1 THEN Alice.id ELSE Bob.id]
    /\ movies = <<>>
    /\ req = [r \in Slots |-> Idle]
    /\ resp = NoResp

FilterNext ==
    \E s \in Sessions, ok \in BOOLEAN :
        \/ \E body \in {BodyAlpha, BodyBeta} : PostAdd(1, s, body, ok)
        \/ GetFilter(1, s, ok)
        \/ \E body \in CriteriaBodies \cup BlankNameBodies : PostFilter(1, s, body, ok)

FilterSpec == FilterInit /\ [][FilterNext]_vars

\* a bound criterion of the filter form: absent, or met by the value
AtLeast(f, v) == f = Absent \/ f.v <= v
AtMost(f, v) == f = Absent \/ v <= f.v

\* the record is principal u's and satisfies every present criterion
Satisfies(doc, u, body) ==
    /\ doc # NullMovie
    /\ doc.userId = u
    /\ body.name = <<>> \/ IncludesIgnoreCase(doc.name, body.name)
    /\ body.genre \in {"", "all"} \/ body.genre \in SeqToSet(doc.genres)
    /\ AtLeast(body.minYear, doc.year) /\ AtMost(body.maxYear, doc.year)
    /\ AtLeast(body.minRating, doc.rating) /\ AtMost(body.maxRating, doc.rating)

\* C4: a filter request that met no store error is answered with the filter
\* view, and the view lists exactly the records of the requesting principal
\* that satisfy every present criterion, the name criterion as a
\* case-insensitive substring; an inverted range gives the empty list.
FilterReturnsExactlyMatching ==
    [][resp'.op = "filter" /\ resp'.err # StoreError =>
           /\ resp'.type = "render"
           /\ SeqToSet(resp'.data)
                  = {m \in SeqToSet(movies) : Satisfies(m, resp'.user, resp'.filters)}]_vars

\* the same, for the name criteria that are plain letters
FilterByLettersReturnsExactlyMatching ==
    [][resp'.op = "filter" /\ resp'.err # StoreError /\ resp'.filters.name # <<".">> =>
           /\ resp'.type = "render"
           /\ SeqToSet(resp'.data)
                  = {m \in SeqToSet(movies) : Satisfies(m, resp'.user, resp'.filters)}]_vars

-----------------------------------------------------------------------------
(* Lists, the authentication gate and logout *)

ListOps == {"list", "filterForm", "filter"}

GatedOps ==
    ListOps \cup {"addForm", "add", "editGet", "editPost", "delete", "detail"}

\* C3: what a list or filter request of principal P shows holds only records
\* whose owner is P.
ListShowsOnlyOwnRecords ==
    resp.op \in ListOps /\ resp.type = "render" =>
        \A i \in 1..Len(resp.data) : resp.data[i].userId = resp.user

\* C3 witness: a filter request showed records while another principal owns a
\* record too
FilteredAmongForeignRecords ==
    /\ resp.op = "filter" /\ resp.type = "render" /\ Len(resp.data) > 0
    /\ \E id \in 1..Len(movies) : movies[id] # NullMovie /\ movies[id].userId # resp.user

\* C8: every operation marked authenticated, logout included, answers a request
\* whose session resolves to no principal with the gate's redirect to login.
GateOnEveryOperation ==
    resp.op \in GatedOps \cup {"logout"} /\ resp.user = NoUser =>
        Answer(resp) = GateRefusal(resp.op)

\* a request of session s is in flight
InFlight(s) == \E r \in Slots : req[r].pc # "idle" /\ req[r].sid = s

\* C9: a completed logout leaves the session without a principal; the session
\* gets one again only in the step of a login on it that succeeds; and while it
\* has none, a request started on it resolves to no principal, starts no gated
\* handler and, for a gated operation, is answered by the gate's redirect.
LogoutEndsSession ==
    [][\A s \in Sessions :
           /\ resp'.op = "logout" /\ resp'.type = "redirect" /\ resp'.sid = s =>
                  sessions'[s] = NoUser
           /\ sessions[s] = NoUser /\ sessions'[s] # NoUser =>
                  \E r \in Slots :
                      /\ req[r].pc = "loginVerify" /\ req[r].sid = s /\ req'[r].pc = "idle"
                      /\ resp'.op = "login" /\ resp'.to = "/movies"
                      /\ sessions'[s] = resp'.user
           /\ sessions[s] = NoUser /\ ~InFlight(s) =>
                  /\ \A r \in Slots :
                         req[r].pc = "idle" /\ req'[r].pc # "idle" /\ req'[r].sid = s =>
                             req'[r].op \in {"login", "register"}
                  /\ resp' # resp /\ resp'.sid = s =>
                         /\ resp'.user = NoUser
                         /\ resp'.op \in GatedOps => Answer(resp') = GateRefusal(resp'.op)]_vars

\* C9 witness: the logout of a session that had a principal has completed
LoggedOut ==
    /\ resp.op = "logout" /\ resp.type = "redirect" /\ resp.user # NoUser
    /\ sessions[resp.sid] = NoUser

\* C10: a logout on a session that has no principal is answered with the
\* redirect to login and changes neither the session store nor the collections.
LogoutIdempotent ==
    [][\A s \in Sessions :
           sessions[s] = NoUser /\ resp' # resp /\ resp'.op = "logout" /\ resp'.sid = s =>
               /\ resp'.type = "redirect" /\ resp'.to = "/users/login"
               /\ sessions' = sessions /\ movies' = movies /\ users' = users]_vars

\* C10 witness: a logout on a session without a principal was answered while
\* the record store holds a record
LoggedOutTwice ==
    /\ resp.op = "logout" /\ resp.type = "redirect" /\ resp.user = NoUser
    /\ \E id \in 1..Len(movies) : movies[id] # NullMovie

-----------------------------------------------------------------------------
(* Ownership *)

NotAuthorized(op, u) ==
    Redirect(op, u, "/movies", "You are not authorized to perform this action")

NotFound(op, u) == Redirect(op, u, "/movies", "Movie not found")

GuardError(op, u) ==
    Caught(Redirect(op, u, "/movies", "Error checking movie ownership"), StoreError)

\* slot r takes a step of its guard
GuardStep(r) == req[r].pc = "guard" /\ req'[r] # req[r]

\* C1: a stored record changes or disappears only in the update or delete step
\* of a request whose principal is the record's owner; the guard of a request
\* by another principal ends the request with the not-authorized redirect (the
\* ownership-check error redirect when the guard's read fails) and leaves every
\* record as it was.
OwnerOnlyMutation ==
    [][/\ \A id \in 1..Len(movies) :
              movies'[id] # movies[id] =>
                  \E r \in Slots :
                      /\ req[r].pc \in {"editPost", "deleteExec"}
                      /\ req'[r].pc = "idle"
                      /\ req[r].id = id
                      /\ req[r].user = movies[id].userId
       /\ \A r \in Slots :
              LET movie == FindById(movies, req[r].id) IN
              GuardStep(r) /\ movie # NullMovie /\ movie.userId # req[r].user =>
                  /\ req'[r].pc = "idle"
                  /\ Answer(resp') \in {NotAuthorized(req[r].op, req[r].user),
                                        GuardError(req[r].op, req[r].user)}
                  /\ movies' = movies]_vars

\* C1 witness: a request was refused as not authorized while the record store
\* holds a record of another principal
RefusedNonOwner ==
    /\ resp.msg = "You are not authorized to perform this action"
    /\ resp.op \in {"editPost", "delete"}
    /\ \E id \in 1..Len(movies) : movies[id] # NullMovie /\ movies[id].userId # resp.user

\* C2: the guard answers NotFound for a missing record, Forbidden for a record
\* of another principal, and otherwise hands the record it loaded to the
\* handler, which shows that record without reading the store again.
GuardHandsOverRecord ==
    [][\A r \in Slots :
           LET movie == FindById(movies, req[r].id)
               op == req[r].op
               u == req[r].user
           IN  /\ GuardStep(r) =>
                      \/ Answer(resp') = GuardError(op, u)
                      \/ movie = NullMovie /\ Answer(resp') = NotFound(op, u)
                      \/ movie # NullMovie /\ movie.userId # u
                             /\ Answer(resp') = NotAuthorized(op, u)
                      \/ movie # NullMovie /\ movie.userId = u
                             /\ req'[r].pc = op /\ req'[r].movie = movie
               /\ req[r].pc = "editGet" /\ req'[r].pc = "idle" =>
                      \/ Answer(resp') = Render("editGet", u, "editMovie", {}, <<req[r].movie>>)
                      \/ resp'.err = StoreError]_vars

-----------------------------------------------------------------------------
(* The detail view *)

\* C11: a detail request of a logged-in principal for id i that met no store
\* error shows record i when it exists and the principal owns it; otherwise
\* it is answered with the not-found redirect to the list, which carries no
\* record.
DetailOnlyForOwner ==
    [][resp' # resp /\ resp'.op = "detail" /\ resp'.user # NoUser
           /\ resp'.err # StoreError =>
           LET movie == FindById(movies, resp'.id)
               u == resp'.user
           IN  IF movie # NullMovie /\ movie.userId = u
               THEN Answer(resp')
                        = ForId(Render("detail", u, "movieDetails", {}, <<movie>>), resp'.id)
               ELSE /\ Answer(resp') = ForId(NotFound("detail", u), resp'.id)
                    /\ resp'.data = NoData]_vars

\* C11 witness: a detail request for another principal's record was answered
\* with the not-found redirect
DetailRefusedForeign ==
    /\ resp.op = "detail" /\ resp.msg = "Movie not found"
    /\ FindById(movies, resp.id) # NullMovie
    /\ FindById(movies, resp.id).userId # resp.user

-----------------------------------------------------------------------------
(* Registrations that race *)

\* no two principals of the collection have the same normalized email
UniqueEmails(us) ==
    \A i, j \in 1..Len(us) :
        i # j => ToLowerCase(Trim(us[i].email)) # ToLowerCase(Trim(us[j].email))

\* C12: the principals never hold one normalized email twice, and the save of
\* a registration whose email a principal already has, as after losing a race
\* between the lookup and the save, creates no principal.
EmailsStayUnique ==
    [][/\ UniqueEmails(users')
       /\ \A r \in Slots :
              Completes(r, "registerSave") /\ EmailTaken(r) => users' = users]_vars

\* C12 witness: the unique index rejected the save of a registration that had
\* passed the lookup
LostRegistrationRace ==
    /\ resp.op = "register" /\ resp.err = "E11000"
    /\ Len(users) > 0 /\ UniqueEmails(users)

-----------------------------------------------------------------------------
(* A record deleted under a request that has passed the guard *)

\* C13: an edit or delete request that has passed the guard and whose record
\* is gone when its own store call runs is answered with NotFound, and the
\* store stays as it is.
MutationOfDeletedIsNotFound ==
    [][\A r \in Slots :
           /\ req[r].pc \in {"editPost", "delete", "deleteExec"}
           /\ req'[r].pc = "idle"
           /\ FindById(movies, req[r].id) = NullMovie
           /\ resp'.err # StoreError
           => /\ Answer(resp') = NotFound(req[r].op, req[r].user)
              /\ movies' = movies]_vars

-----------------------------------------------------------------------------
(* Requests that get no response *)

\* C14: every request is answered, also when a store call made for it fails:
\* no request is left without a response.
EveryRequestAnswered == resp.type # "hang"

-----------------------------------------------------------------------------
(* Adding and editing records, one request at a time *)

\* every submitted genre is outside the enumeration
BodyWestern == [BodyBeta EXCEPT !.genres = Arr(<<"Western">>)]

\* a body that carries a userId field besides the fields of the form
BodyTakeover == [userId |-> Bob.id] @@ BodyBeta

\* a store-invalid description that passes the form's length check
BodyBlankDescription == [BodyAlpha EXCEPT !.description = Rep(" ", MinDescription)]

RecordAddBodies == {BodyAlpha, BodyBadYear, BodyWestern, BodyBlankDescription}

RecordEditBodies == {BodyBeta, BodyBadYear, BodyWestern, BodyTakeover}

RecordInit ==
    /\ users = <<Alice, Bob>>
    /\ sessions = [s \in Sessions |-> IF s = 1 THEN Alice.id ELSE Bob.id]
    /\ movies = <<>>
    /\ req = [r \in Slots |-> Idle]
    /\ resp = NoResp

RecordNext ==
    \E s \in Sessions, ok \in BOOLEAN :
        \/ \E body \in RecordAddBodies : PostAdd(1, s, body, ok)
        \/ \E id \in MovieIds, body \in RecordEditBodies : BeginEditPost(1, s, id, body)
        \/ Guard(1, ok)
        \/ EditPost(1, ok)

RecordSpec == RecordInit /\ [][RecordNext]_vars

\* the stored records
Stored == {m \in SeqToSet(movies) : m # NullMovie}

\* C15: every stored record has a non-empty genre set within the enumeration.
StoredGenresValid ==
    \A m \in Stored :
        Len(m.genres) > 0 /\ \A i \in 1..Len(m.genres) : m.genres[i] \in availableGenres

\* the years a form can submit, around both ends of the range
YearSamples ==
    {Absent, Text, Num(MinYear - 1), Num(MinYear), Num(MaxYear), Num(MaxYear + 1)}

\* POST /movies/add creates a record from the body with this year
AddAcceptsYear(y) ==
    LET body == [BodyAlpha EXCEPT !.year = y] IN
    ValidateMovie(body) = {} /\ SchemaValid(NewMovie(1, Alice.id, body))

\* POST /movies/edit/:id updates a record from the body with this year
EditAcceptsYear(y) == ValidateMovie([BodyBeta EXCEPT !.year = y]) = {}

OwnerFixedAtCreation ==
    [][/\ \A id \in 1..Len(movies) :
              movies[id] # NullMovie /\ movies'[id] # NullMovie =>
                  movies'[id].userId = movies[id].userId
       /\ Len(movies') > Len(movies) =>
              /\ resp'.op = "add" /\ Len(movies') = Len(movies) + 1
              /\ movies'[Len(movies')].userId = resp'.user
              /\ resp'.user = sessions[resp'.sid]]_vars

\* C17 witness: an edit whose body carries another principal's id as userId has
\* changed a record
EditedWithForeignOwnerField ==
    /\ resp.op = "editPost" /\ resp.msg = "Movie updated successfully"
    /\ \E m \in Stored : m.userId = resp.user /\ m.name = MovieFields(BodyTakeover).name

\* the response tells the caller that the add or edit failed
FailedWrite(response) ==
    /\ response.op \in {"add", "editPost"}
    /\ response.errors # {} \/ response.err # ""

\* C19: an add or edit request that fails leaves every record as it was and
\* is answered with the form and its errors or with an error redirect.
FailedWriteChangesNothing ==
    [][/\ resp' # resp /\ FailedWrite(resp') =>
              /\ movies' = movies
              /\ \/ resp'.type = "render" /\ resp'.errors # {}
                 \/ resp'.type = "redirect" /\ resp'.msg # ""
       /\ movies' # movies => resp'.msg \in {"Movie added successfully",
                                            "Movie updated successfully"}]_vars

\* C19 witness: the store rejected the document of an add while a record is
\* stored
AddRejectedByStore ==
    /\ resp.op = "add" /\ resp.err = "ValidationError"
    /\ Stored # {}

-----------------------------------------------------------------------------
(* A blank name criterion *)

\* C18: a filter request whose name is empty or only whitespace lists the
\* records that the same request without a name criterion lists.
BlankNameIsNoCriterion ==
    [][resp' # resp /\ resp'.op = "filter" /\ resp'.type = "render"
           /\ Trim(resp'.filters.name) = <<>> =>
           resp'.data
               = Find(movies, BuildFilter(resp'.user, [resp'.filters EXCEPT !.name = <<>>]))]_vars

-----------------------------------------------------------------------------
(* What a session's principal reference comes from *)

\* C20: a session's principal reference changes only in the step that ends a
\* logout on it, which clears it, or in the step that ends a login on it whose
\* email and password are those a stored principal registered with, which sets
\* it to that principal; a login that fails or whose input is invalid changes
\* no session.
SessionOnlyByMatchingLogin ==
    [][/\ \A s \in Sessions :
              sessions'[s] # sessions[s] =>
                  \/ /\ sessions'[s] = NoUser
                     /\ resp'.op = "logout" /\ resp'.sid = s
                  \/ \E r \in Slots :
                         /\ Completes(r, "loginVerify") /\ req[r].sid = s
                         /\ sessions'[s] \in 1..Len(users)
                         /\ users[sessions'[s]].email = ToLowerCase(req[r].raw.email)
                         /\ users[sessions'[s]].password = Hash(req[r].raw.password)
       /\ resp' # resp /\ resp'.op = "login" /\ resp'.to # "/movies" =>
              sessions' = sessions]_vars

\* C20 witness: a login with a wrong password was refused on a session that
\* holds the reference an earlier login gave it
FailedLoginKeptSession ==
    /\ resp.op = "login" /\ resp.msg = "Password incorrect"
    /\ sessions[resp.sid] # NoUser

====
